---- MODULE Spec2Model ----
(***************************************************************************)
(* calculate_scop of src/main.py as a state machine.                       *)
(*                                                                         *)
(* The function computes with Python floats.  They are modelled as IEEE    *)
(* 754 binary64 numbers: a sign, a 53-bit significand and an exponent,     *)
(* every operation rounding its exact result to the nearest such number,   *)
(* ties to even.  The significand is an arbitrary-precision natural.       *)
(* Subnormal numbers, infinities and overflow are outside the model; the   *)
(* inputs the model draws stay far from them.                              *)
(***************************************************************************)
EXTENDS Integers, Sequences, FiniteSets, TLC

(***************************************************************************)
(* Arbitrary-precision naturals: little-endian sequences of limbs in base  *)
(* Base with no most-significant zero limb; <<>> is 0.                     *)
(***************************************************************************)
LimbBits == 13
Base == 2 ^ LimbBits

Abs(nat) == IF nat < 0 THEN -nat ELSE nat
Sgn(nat) == IF nat < 0 THEN -1 ELSE IF nat > 0 THEN 1 ELSE 0
Min(m, n) == IF m < n THEN m ELSE n
Monus(m, n) == IF m > n THEN m - n ELSE 0

Limb(xs, ix) == IF ix >= 1 /\ ix <= Len(xs) THEN xs[ix] ELSE 0

RECURSIVE NTrim(_)
NTrim(xs) ==
    IF xs = <<>> THEN xs
    ELSE IF xs[Len(xs)] = 0 THEN NTrim(SubSeq(xs, 1, Len(xs) - 1)) ELSE xs

RECURSIVE NFromInt(_)
NFromInt(nat) ==
    IF nat = 0 THEN <<>> ELSE <<nat % Base>> \o NFromInt(nat \div Base)

RECURSIVE NAddC(_, _, _, _)
NAddC(xs, ys, ix, cy) ==
    IF ix > Len(xs) /\ ix > Len(ys)
    THEN (IF cy = 0 THEN <<>> ELSE <<cy>>)
    ELSE <<(Limb(xs, ix) + Limb(ys, ix) + cy) % Base>>
         \o NAddC(xs, ys, ix + 1, (Limb(xs, ix) + Limb(ys, ix) + cy) \div Base)

NAdd(xs, ys) == NTrim(NAddC(xs, ys, 1, 0))

\* xs >= ys
RECURSIVE NSubB(_, _, _, _)
NSubB(xs, ys, ix, bw) ==
    IF ix > Len(xs) THEN <<>>
    ELSE IF xs[ix] - Limb(ys, ix) - bw < 0
    THEN <<xs[ix] - Limb(ys, ix) - bw + Base>> \o NSubB(xs, ys, ix + 1, 1)
    ELSE <<xs[ix] - Limb(ys, ix) - bw>> \o NSubB(xs, ys, ix + 1, 0)

NSub(xs, ys) == NTrim(NSubB(xs, ys, 1, 0))

RECURSIVE NCmpAt(_, _, _)
NCmpAt(xs, ys, ix) ==
    IF ix = 0 THEN 0
    ELSE IF xs[ix] < ys[ix] THEN -1
    ELSE IF xs[ix] > ys[ix] THEN 1
    ELSE NCmpAt(xs, ys, ix - 1)

\* -1, 0, 1 as xs < ys, xs = ys, xs > ys
NCmp(xs, ys) ==
    IF Len(xs) < Len(ys) THEN -1
    ELSE IF Len(xs) > Len(ys) THEN 1
    ELSE NCmpAt(xs, ys, Len(xs))

\* xs * lm + cy for a limb lm
RECURSIVE NMulLimb(_, _, _, _)
NMulLimb(xs, lm, ix, cy) ==
    IF ix > Len(xs)
    THEN (IF cy = 0 THEN <<>> ELSE <<cy>>)
    ELSE <<(xs[ix] * lm + cy) % Base>>
         \o NMulLimb(xs, lm, ix + 1, (xs[ix] * lm + cy) \div Base)

\* the sum of xs[ix] * ys[col + 1 - ix] for ix in lo..hi
RECURSIVE NColumn(_, _, _, _, _)
NColumn(xs, ys, col, lo, hi) ==
    IF lo > hi THEN 0
    ELSE xs[lo] * ys[col + 1 - lo] + NColumn(xs, ys, col, lo + 1, hi)

\* column col of the product: the limbs whose weights multiply to Base^(col-1)
NColumnSum(xs, ys, col) ==
    NColumn(xs, ys, col,
            IF col > Len(ys) THEN col + 1 - Len(ys) ELSE 1,
            IF col > Len(xs) THEN Len(xs) ELSE col)

\* acc is column col plus the carry into it
RECURSIVE NMulCols(_, _, _, _)
NMulCols(xs, ys, col, acc) ==
    IF col >= Len(xs) + Len(ys)
    THEN (IF acc = 0 THEN <<>> ELSE <<acc>>)
    ELSE <<acc % Base>>
         \o NMulCols(xs, ys, col + 1, acc \div Base + NColumnSum(xs, ys, col + 1))

NMul(xs, ys) ==
    IF xs = <<>> \/ ys = <<>> THEN <<>>
    ELSE NMulCols(xs, ys, 1, xs[1] * ys[1])

\* xs div pr for a divisor pr of at most one limb
RECURSIVE NDivFrom(_, _, _, _)
NDivFrom(xs, pr, ix, rm) ==
    IF ix = 0 THEN <<>>
    ELSE NDivFrom(xs, pr, ix - 1, (rm * Base + xs[ix]) % pr)
         \o <<(rm * Base + xs[ix]) \div pr>>

NDiv(xs, pr) == NTrim(NDivFrom(xs, pr, Len(xs), 0))

RECURSIVE NPow10(_)
NPow10(ex) == IF ex = 0 THEN <<1>> ELSE NMulLimb(NPow10(ex - 1), 10, 1, 0)

\* the number of bits of a machine integer and of a natural
RECURSIVE IntBits(_)
IntBits(nat) == IF nat = 0 THEN 0 ELSE 1 + IntBits(nat \div 2)

NBits(xs) ==
    IF xs = <<>> THEN 0 ELSE LimbBits * (Len(xs) - 1) + IntBits(xs[Len(xs)])

NOdd(xs) == xs # <<>> /\ xs[1] % 2 = 1

\* xs * 2^sh and the integer part of xs / 2^sh
NShl(xs, sh) ==
    IF xs = <<>> THEN xs
    ELSE [k \in 1..(sh \div LimbBits) |-> 0]
         \o NMulLimb(xs, 2 ^ (sh % LimbBits), 1, 0)

NShr(xs, sh) ==
    IF sh \div LimbBits >= Len(xs) THEN <<>>
    ELSE NDiv(SubSeq(xs, sh \div LimbBits + 1, Len(xs)), 2 ^ (sh % LimbBits))

\* the sign and the magnitude of sx * xs + sy * ys for signs sx, sy # 0
NSumSgn(sx, xs, sy, ys) == IF sx = sy THEN sx ELSE sx * NCmp(xs, ys)

NSumMag(sx, xs, sy, ys) ==
    IF sx = sy THEN NAdd(xs, ys)
    ELSE IF NCmp(xs, ys) >= 0 THEN NSub(xs, ys)
    ELSE NSub(ys, xs)

\* xs * lm for a limb lm
NTimes(xs, lm) == IF lm = 0 THEN <<>> ELSE NMulLimb(xs, lm, 1, 0)

\* long division by ds, whose most significant limb is at least Base / 2:
\* rs < ds is the remainder so far, qs the quotient so far and ps[1..ix] the
\* limbs of the dividend still to bring down
RECURSIVE NLongDiv(_, _, _, _, _)
RECURSIVE NDivDigit(_, _, _, _, _, _, _)
NDivBring(rs, ds, ps, ix, qs) ==
    NDivDigit(rs, ds, ps, ix, qs,
              Min(Base - 1,
                  (Limb(rs, Len(ds) + 1) * Base + Limb(rs, Len(ds)))
                      \div ds[Len(ds)]),
              <<>>)

NLongDiv(rs, ds, ps, ix, qs) ==
    IF ix = 0 THEN [quo |-> NTrim(qs), rem |-> rs]
    ELSE NDivBring(NTrim(<<ps[ix]>> \o rs), ds, ps, ix, qs)

\* dg is the next digit or exceeds it (by 2 at most); ts is the product of
\* ds and dg, or <<>> while it is not computed
NDivDigit(rs, ds, ps, ix, qs, dg, ts) ==
    IF dg > 0 /\ ts = <<>>
    THEN NDivDigit(rs, ds, ps, ix, qs, dg, NTimes(ds, dg))
    ELSE IF NCmp(ts, rs) > 0
    THEN NDivDigit(rs, ds, ps, ix, qs, dg - 1, <<>>)
    ELSE NLongDiv(NSub(rs, ts), ds, ps, ix - 1, <<dg>> \o qs)

\* the quotient and the remainder of ps by ds
NDivMod(ps, ds) ==
    NLongDiv(SubSeq(ps, Len(ps) - Min(Len(ps), Len(ds) - 1) + 1, Len(ps)), ds,
             ps, Len(ps) - Min(Len(ps), Len(ds) - 1), <<>>)

(***************************************************************************)
(* Floats: [sgn |-> -1, 0 or 1, man |-> significand, exp |-> exponent] of  *)
(* value sgn * man * 2^exp, where man has exactly MantBits bits, or is     *)
(* <<>> for zero.  The representation of a value is unique, so two floats  *)
(* are equal as numbers exactly when they are equal as records.            *)
(***************************************************************************)
MantBits == 53

FZero == [sgn |-> 0, man |-> <<>>, exp |-> 0]

\* a significand that rounding up carried to MantBits + 1 bits
FPack(sg, xs, ex) ==
    IF NBits(xs) > MantBits
    THEN [sgn |-> sg, man |-> NShr(xs, 1), exp |-> ex + 1]
    ELSE [sgn |-> sg, man |-> xs, exp |-> ex]

\* round to nearest, ties to even: rb is the first discarded bit, st tells
\* whether a later one is set
FRoundUp(xs, rb, st) == IF rb /\ (st \/ NOdd(xs)) THEN NAdd(xs, <<1>>) ELSE xs

\* xs has sh > 0 bits too many; hs is xs without the last sh - 1 of them
FRoundAt(sg, xs, ex, st, sh, hs) ==
    FPack(sg, FRoundUp(NShr(hs, 1), NOdd(hs), st \/ NShl(hs, sh - 1) # xs),
          ex + sh)

FRoundBits(sg, xs, ex, st, bits) ==
    IF bits <= MantBits
    THEN [sgn |-> sg, man |-> NShl(xs, MantBits - bits),
          exp |-> ex - (MantBits - bits)]
    ELSE FRoundAt(sg, xs, ex, st, bits - MantBits,
                  NShr(xs, bits - MantBits - 1))

\* the float nearest to sg * y, where xs * 2^ex = y if st is false and
\* xs * 2^ex < y < (xs + 1) * 2^ex if st is true (xs then has more than
\* MantBits + 1 bits)
FRound(sg, xs, ex, st) ==
    IF sg = 0 \/ xs = <<>> THEN FZero
    ELSE FRoundBits(sg, xs, ex, st, NBits(xs))

FQuot(sg, qr, ex) == FRound(sg, qr.quo, ex, qr.rem # <<>>)

\* the shift that brings the most significant bit of qs to the top of its
\* limb, and the shift that then gives ps QuotLimbs limbs more than qs
QuotLimbs == 6
NormShift(qs) == (LimbBits - (NBits(qs) % LimbBits)) % LimbBits
QuotShift(ps, qs) ==
    NormShift(qs) + LimbBits * Monus(Len(qs) + QuotLimbs, Len(ps))

\* ps / qs * 2^ex for naturals ps, qs # 0: the quotient has more than
\* MantBits + 1 bits
FDivNat(sg, ps, qs, ex) ==
    FQuot(sg, NDivMod(NShl(ps, QuotShift(ps, qs)), NShl(qs, NormShift(qs))),
          ex - QuotShift(ps, qs) + NormShift(qs))

\* the integer nat as a float, and the float a decimal literal nat * 10^-ex
\* denotes
FInt(nat) == FRound(Sgn(nat), NFromInt(Abs(nat)), 0, FALSE)
FDec(nat, ex) ==
    IF nat = 0 THEN FZero
    ELSE FDivNat(Sgn(nat), NFromInt(Abs(nat)), NPow10(ex), 0)

FNeg(x) == [sgn |-> 0 - x.sgn, man |-> x.man, exp |-> x.exp]
FAbs(x) == [sgn |-> x.sgn * x.sgn, man |-> x.man, exp |-> x.exp]

FMul(x, y) == FRound(x.sgn * y.sgn, NMul(x.man, y.man), x.exp + y.exp, FALSE)

\* y # 0
FDiv(x, y) ==
    IF x.sgn = 0 THEN FZero
    ELSE FDivNat(x.sgn * y.sgn, x.man, y.man, x.exp - y.exp)

\* signed significands xs and ys at the common exponent ex
FAddAligned(sx, xs, sy, ys, ex) ==
    FRound(NSumSgn(sx, xs, sy, ys), NSumMag(sx, xs, sy, ys), ex, FALSE)

FAdd(x, y) ==
    IF x.sgn = 0 THEN y
    ELSE IF y.sgn = 0 THEN x
    ELSE FAddAligned(x.sgn, NShl(x.man, x.exp - Min(x.exp, y.exp)),
                     y.sgn, NShl(y.man, y.exp - Min(x.exp, y.exp)),
                     Min(x.exp, y.exp))

FSub(x, y) == FAdd(x, FNeg(y))

\* -1, 0, 1 as x < y, x = y, x > y
FCmp(x, y) ==
    IF x.sgn # y.sgn THEN (IF x.sgn < y.sgn THEN -1 ELSE 1)
    ELSE IF x.sgn = 0 THEN 0
    ELSE IF x.exp # y.exp THEN (IF x.exp < y.exp THEN 0 - x.sgn ELSE x.sgn)
    ELSE x.sgn * NCmp(x.man, y.man)

FLt(x, y) == FCmp(x, y) < 0
FLe(x, y) == FCmp(x, y) <= 0

\* the float a literal of more than nine digits denotes: (hi * 10^8 + lo) *
\* 10^-ex for hi > 0
FDecLong(hi, lo, ex) ==
    FDivNat(1, NAdd(NMul(NFromInt(hi), NPow10(8)), NFromInt(lo)), NPow10(ex), 0)

(***************************************************************************)
(* Python values that are not numbers.                                     *)
(***************************************************************************)
None == [none |-> TRUE]
NaN == [nan |-> TRUE]

(***************************************************************************)
(* calculate_scop: the design parameters and the two polynomials.  An      *)
(* integer argument mixed with a float is converted exactly, and x**2 is   *)
(* the correctly rounded square.                                           *)
(***************************************************************************)
T_design == FDec(-72, 1)
T_room == FInt(20)
delta_T_max == FSub(T_room, T_design)

a1 == FDec(9111, 6)
b1 == FDec(5736667, 6)
c1 == FDec(-73627, 6)
d1 == FDec(4822, 3)
e1 == FDec(214022667, 6)

P_hmax_design(tod) ==
    FAdd(FAdd(FAdd(FAdd(FMul(a1, FMul(T_design, T_design)),
                        FMul(b1, T_design)),
                   FMul(c1, FMul(tod, tod))),
              FMul(d1, tod)),
         e1)

a == FDec(3551, 7)
b == FDec(578, 4)
c == FDec(-637, 4)
d == FDec(60284, 4)

COP_m(T_menv, T_mout) ==
    FAdd(FAdd(FAdd(FMul(a, FMul(T_menv, T_menv)), FMul(b, T_menv)),
              FMul(c, T_mout)),
         d)

\* the labels "11月" ... "4月"
month_names == <<"11", "12", "1", "2", "3", "4">>

\* the branch taken at "if n_units is not None / elif area is not None and
\* q_H is not None / else"
SizingMethod(nu, ar, qh) ==
    IF nu # None THEN "units"
    ELSE IF ar # None /\ qh # None THEN "area"
    ELSE "ValueError"

\* K_units without the division by delta_T_max
K_units_undivided(nu, tod) == FMul(nu, P_hmax_design(tod))

\* line 33
K_units(nu, tod) == FDiv(FMul(nu, P_hmax_design(tod)), delta_T_max)

\* lines 37-38
K_area(ar, qh) == FDiv(FDiv(FMul(ar, qh), FInt(1000)), delta_T_max)

\* lines 32-41: the method and K, or the ValueError
Sizing(nu, ar, qh, tod) ==
    LET m == SizingMethod(nu, ar, qh)
    IN  [method |-> m,
         K |-> IF m = "units" THEN K_units(nu, tod)
               ELSE IF m = "area" THEN K_area(ar, qh)
               ELSE None]

\* line 53: t_m, and line 60: delta_T
t_m_of(days) == FMul(days, FInt(24))
delta_T_of(T_menv) == FSub(T_room, T_menv)

\* NoDemand with the comparison reversed
NoDemand_flipped(delta_T) == FLe(FZero, delta_T)

\* line 61
NoDemand(delta_T) == FLe(delta_T, FZero)

\* Qm_of without the differential
Qm_of_constant(k, delta_T, t_m) == FMul(k, t_m)

\* line 67
Qm_of(k, delta_T, t_m) == FMul(FMul(k, delta_T), t_m)

\* Pm_of with one kWh more drawn each month
Pm_of_standby(Qm, cop) == FDiv(FAdd(Qm, FInt(1)), cop)

\* line 68
Pm_of(Qm, cop) == FDiv(Qm, cop)

\* lines 66-68: the month has a demand; the division raises
\* ZeroDivisionError when COP_m is 0
MonthDemand(cop, Qm) ==
    IF cop = FZero
    THEN [COP_m |-> cop, Qm |-> Qm, Pm |-> None, exc |-> "ZeroDivisionError"]
    ELSE [COP_m |-> cop, Qm |-> Qm, Pm |-> Pm_of(Qm, cop), exc |-> "none"]

\* lines 61-68
MonthBranch(k, cop, delta_T, t_m) ==
    IF NoDemand(delta_T)
    THEN [COP_m |-> cop, Qm |-> FZero, Pm |-> FZero, exc |-> "none"]
    ELSE MonthDemand(cop, Qm_of(k, delta_T, t_m))

\* lines 53-68: what one iteration computes from K and the month's inputs
MonthBody(k, T_menv, T_mout, days) ==
    MonthBranch(k, COP_m(T_menv, T_mout), delta_T_of(T_menv), t_m_of(days))

\* Accumulated with = for +=
Accumulated_overwritten(total, x) == x

\* lines 70-71: total += x
Accumulated(total, x) == FAdd(total, x)

\* SCOP_of with != 0 for > 0
SCOP_of_nonzero(q, p) == IF p # FZero THEN FDiv(q, p) ELSE NaN

\* lines 84-87
SCOP_of(q, p) == IF FLt(FZero, p) THEN FDiv(q, p) ELSE NaN

\* zip stops at the shortest of its arguments
ZipLen(e, o, ds) == Min(Len(e), Min(Len(o), Len(ds)))

Range(f) == {f[x] : x \in DOMAIN f}

(***************************************************************************)
(* The example of the __main__ block.                                      *)
(***************************************************************************)
example_env_temps ==
    <<FDec(-5, 1), FDec(-12, 1), FDec(-28, 1), FDec(-15, 1), FInt(1), FDec(55, 1)>>
example_out_temps == [k \in 1..6 |-> FInt(40)]
example_days_in_month == <<FInt(15), FInt(31), FInt(31), FInt(28), FInt(31), FInt(5)>>
example_n_units == FInt(21)
example_area == FInt(67000)
example_q_H == FInt(25)

(***************************************************************************)
(* The inputs the model draws.  A season is the example's, or one whose    *)
(* ambient temperatures alternate between the two values of a pair of      *)
(* EnvPairs, with one outlet temperature and one day count for all its     *)
(* months.  The ambient temperatures include the indoor temperature 20.0,  *)
(* a value above it, and 1e-17, which 20.0 - T_menv cannot tell from 0.0.  *)
(* The outlet temperatures include 94.63736263736263, at which COP_m is    *)
(* 0.0 for an ambient temperature of 0.0 and negative for -3.0.            *)
(***************************************************************************)
MaxMonths == 7

EnvPairs ==
    {<<FInt(-3), FInt(-3)>>, <<FInt(-3), FZero>>, <<FZero, FDec(1, 17)>>,
     <<FInt(20), FInt(25)>>, <<FInt(-3), FInt(25)>>}
EnvTemps == {p[1] : p \in EnvPairs} \cup {p[2] : p \in EnvPairs}
OutTemps == {FInt(40), FDecLong(94637362, 63736263, 14)}
DayCounts == {FZero, FInt(30)}
UnitCounts == {None, FZero, FInt(1), example_n_units}
Areas == {None, example_area}
HeatIndexes == {None, example_q_H}
OutDesignTemps == {FInt(45), FInt(100)}

Alt(x, y, len) == [k \in 1..len |-> IF k % 2 = 1 THEN x ELSE y]
Const(v, len) == [k \in 1..len |-> v]

Seasons ==
    {<<Alt(p[1], p[2], len), Const(ot, len), Const(dc, len)>> :
        p \in EnvPairs, ot \in OutTemps, dc \in DayCounts, len \in 0..MaxMonths}
    \cup {<<example_env_temps, example_out_temps, example_days_in_month>>}

\* Sizing and MonthBody are pure; TLC evaluates each once per argument
SizingTable ==
    [nu \in UnitCounts, ar \in Areas, qh \in HeatIndexes, tod \in OutDesignTemps |->
        Sizing(nu, ar, qh, tod)]

KValues == {sz.K : sz \in Range(SizingTable)} \ {None}

MonthInputs ==
    (EnvTemps \cup Range(example_env_temps))
    \X (OutTemps \cup Range(example_out_temps))
    \X (DayCounts \cup Range(example_days_in_month))

MonthTable ==
    [k \in KValues, m \in MonthInputs |-> MonthBody(k, m[1], m[2], m[3])]

VARIABLES pc, exc,
          env_temps_monthly, out_temps_monthly, days_in_month,
          n_units, area, q_H, T_out_design,
          K, method, Q_total, P_total, monthly_data, i, SCOP, details,
          det1

args == <<env_temps_monthly, out_temps_monthly, days_in_month, n_units, area, q_H, T_out_design>>
locals == <<K, method, Q_total, P_total, monthly_data, i>>
vars == <<pc, exc, args, locals, SCOP, details, det1>>

Init ==
    /\ pc = "idle"
    /\ exc = "none"
    /\ env_temps_monthly = <<>>
    /\ out_temps_monthly = <<>>
    /\ days_in_month = <<>>
    /\ n_units = None
    /\ area = None
    /\ q_H = None
    /\ T_out_design = None
    /\ K = None
    /\ method = "none"
    /\ Q_total = None
    /\ P_total = None
    /\ monthly_data = <<>>
    /\ i = 0
    /\ SCOP = None
    /\ details = None
    /\ det1 = None

\* Size with the totals started before the sizing branch
Size_totals_first(sz) ==
    /\ method' = sz.method
    /\ K' = sz.K
    /\ Q_total' = FZero
    /\ P_total' = FZero
    /\ IF sz.method = "ValueError"
       THEN pc' = "raised" /\ exc' = "ValueError"
       ELSE pc' = "loop" /\ exc' = "none"

\* lines 32-48: the sizing branch and the initial totals
Size(sz) ==
    /\ method' = sz.method
    /\ K' = sz.K
    /\ IF sz.method = "ValueError"
       THEN /\ pc' = "raised"
            /\ exc' = "ValueError"
            /\ Q_total' = None
            /\ P_total' = None
       ELSE /\ pc' = "loop"
            /\ exc' = "none"
            /\ Q_total' = FZero
            /\ P_total' = FZero

\* lines 3-48: the call with its arguments bound
Enter(e, o, ds, nu, ar, qh, tod) ==
    /\ env_temps_monthly' = e
    /\ out_temps_monthly' = o
    /\ days_in_month' = ds
    /\ n_units' = nu
    /\ area' = ar
    /\ q_H' = qh
    /\ T_out_design' = tod
    /\ Size(SizingTable[nu, ar, qh, tod])
    /\ monthly_data' = <<>>
    /\ i' = 0
    /\ SCOP' = None
    /\ details' = None

\* a call of calculate_scop
Call ==
    /\ pc = "idle"
    /\ \E s \in Seasons, nu \in UnitCounts, ar \in Areas, qh \in HeatIndexes,
          tod \in OutDesignTemps :
         Enter(s[1], s[2], s[3], nu, ar, qh, tod)
    /\ det1' = None

\* lines 109-113: after a call by unit count has returned, the same season
\* again by area and heat-demand index
CallAgain ==
    /\ pc = "done"
    /\ det1 = None
    /\ n_units # None /\ area = None /\ q_H = None
    /\ \E ar \in Areas \ {None}, qh \in HeatIndexes \ {None} :
         Enter(env_temps_monthly, out_temps_monthly, days_in_month,
               None, ar, qh, T_out_design)
    /\ det1' = details

Raise(e) ==
    /\ pc' = "raised"
    /\ exc' = e
    /\ UNCHANGED <<args, locals, SCOP, details, det1>>

\* lines 70-81: the totals and the month's record
Accumulate(T_menv, T_mout, days, mb) ==
    IF mb.exc # "none" THEN Raise(mb.exc)
    ELSE /\ Q_total' = Accumulated(Q_total, mb.Qm)
         /\ P_total' = Accumulated(P_total, mb.Pm)
         /\ monthly_data' = Append(monthly_data,
               [month |-> month_names[i + 1], T_menv |-> T_menv,
                T_mout |-> T_mout, days |-> days, COP_m |-> mb.COP_m,
                Qm_kWh |-> mb.Qm, Pm_kWh |-> mb.Pm])
         /\ i' = i + 1
         /\ UNCHANGED <<pc, exc, args, K, method, SCOP, details, det1>>

\* lines 51-81: one iteration of the loop
Month ==
    /\ pc = "loop"
    /\ i < ZipLen(env_temps_monthly, out_temps_monthly, days_in_month)
    /\ IF i >= Len(month_names) THEN Raise("IndexError")
       ELSE Accumulate(env_temps_monthly[i + 1], out_temps_monthly[i + 1],
                       days_in_month[i + 1],
                       MonthTable[K, <<env_temps_monthly[i + 1],
                                       out_temps_monthly[i + 1],
                                       days_in_month[i + 1]>>])

\* lines 83-98: the ratio and the return
Return ==
    /\ pc = "loop"
    /\ i = ZipLen(env_temps_monthly, out_temps_monthly, days_in_month)
    /\ SCOP' = SCOP_of(Q_total, P_total)
    /\ details' = [K |-> K, Q_total_kWh |-> Q_total, P_total_kWh |-> P_total,
                   SCOP |-> SCOP', monthly |-> monthly_data]
    /\ pc' = "done"
    /\ UNCHANGED <<exc, args, locals, det1>>

Next == Call \/ CallAgain \/ Month \/ Return

Spec == Init /\ [][Next]_vars

(***************************************************************************)
(* Properties.  Each is stated for the call in progress or just ended;     *)
(* det1, when it is not None, is what the preceding call returned.         *)
(***************************************************************************)
Accepted == pc \in {"loop", "done"} \/ (pc = "raised" /\ exc # "ValueError")
Positive(x) == FLt(FZero, x)

\* the sums of the first n records, taken in order from 0.0
RECURSIVE SumQm(_, _)
SumQm(recs, n) ==
    IF n = 0 THEN FZero ELSE FAdd(SumQm(recs, n - 1), recs[n].Qm_kWh)

RECURSIVE SumPm(_, _)
SumPm(recs, n) ==
    IF n = 0 THEN FZero ELSE FAdd(SumPm(recs, n - 1), recs[n].Pm_kWh)

\* C1: once the sizing is accepted, Q_total and P_total are the sums of
\* Qm_kWh and of Pm_kWh over the records made so far, after every iteration,
\* and the returned totals are the sums over the returned records.
C1_TotalsAreSums ==
    Accepted =>
        /\ Q_total = SumQm(monthly_data, Len(monthly_data))
        /\ P_total = SumPm(monthly_data, Len(monthly_data))
        /\ pc = "done" =>
             /\ details.monthly = monthly_data
             /\ details.Q_total_kWh = Q_total
             /\ details.P_total_kWh = P_total

C1_Witness ==
    /\ pc = "done"
    /\ Len(details.monthly) = 6
    /\ \A k \in 1..6 : Positive(details.monthly[k].Qm_kWh)
    /\ Positive(details.P_total_kWh)

\* C2: a call without a unit count and without both area and q_H ends with
\* ValueError, with no record made, no total started and nothing returned.
C2_ConfigErrorBeforeMonths ==
    (pc # "idle" /\ n_units = None /\ (area = None \/ q_H = None)) =>
        /\ pc = "raised" /\ exc = "ValueError"
        /\ monthly_data = <<>> /\ i = 0
        /\ Q_total = None /\ P_total = None
        /\ SCOP = None /\ details = None

C2_Witness ==
    /\ pc = "raised" /\ exc = "ValueError"
    /\ area # None /\ q_H = None
    /\ Len(env_temps_monthly) > 0

\* C3: a call with a unit count and with area or q_H as well ends with
\* ValueError.
C3_GroupsExclusive ==
    (pc # "idle" /\ n_units # None /\ (area # None \/ q_H # None)) =>
        (pc = "raised" /\ exc = "ValueError")

\* C4: a call fails with ValueError only.
C4_OnlyConfigError == pc = "raised" => exc = "ValueError"

\* C5: a call whose sizing is accepted ends, unless a month's COP is 0, with
\* one record for each input month, in order, carrying the month's inputs.
C5_OneRecordPerMonth ==
    (pc \in {"done", "raised"} /\ exc \notin {"ValueError", "ZeroDivisionError"}) =>
        /\ Len(monthly_data) = Len(env_temps_monthly)
        /\ \A k \in 1..Len(monthly_data) :
             /\ monthly_data[k].T_menv = env_temps_monthly[k]
             /\ monthly_data[k].T_mout = out_temps_monthly[k]
             /\ monthly_data[k].days = days_in_month[k]

\* C6: the returned SCOP is Q_total / P_total exactly when P_total > 0 and is
\* the marker NaN, which is no number, otherwise; the call returns K, the
\* totals and the records in both cases.
C6_ScopRatioIffPositive ==
    pc = "done" =>
        /\ IF Positive(P_total) THEN SCOP = FDiv(Q_total, P_total)
                                ELSE SCOP = NaN
        /\ "sgn" \notin DOMAIN NaN
        /\ details = [K |-> K, Q_total_kWh |-> Q_total, P_total_kWh |-> P_total,
                      SCOP |-> SCOP, monthly |-> monthly_data]
        /\ K # None /\ Q_total # None /\ P_total # None

C6_Witness ==
    /\ pc = "done"
    /\ Len(monthly_data) > 1
    /\ FLt(P_total, FZero)
    /\ SCOP = NaN

\* C7: when 20 - T_menv <= 0 for every month, every record has Qm_kWh = 0
\* and Pm_kWh = 0, both totals are 0 and the returned SCOP is NaN.
AllNoDemand ==
    \A k \in 1..Len(env_temps_monthly) :
        FLe(FSub(FInt(20), env_temps_monthly[k]), FZero)

C7_NoDemandSeason ==
    (pc \in {"loop", "done"} /\ AllNoDemand) =>
        /\ \A k \in 1..Len(monthly_data) :
             monthly_data[k].Qm_kWh = FZero /\ monthly_data[k].Pm_kWh = FZero
        /\ Q_total = FZero /\ P_total = FZero
        /\ pc = "done" => SCOP = NaN /\ details.SCOP = NaN

C7_Witness ==
    /\ pc = "done"
    /\ AllNoDemand
    /\ Len(monthly_data) = 6
    /\ monthly_data[1].T_menv = FInt(20)
    /\ Positive(K) /\ Positive(monthly_data[1].days)
    /\ SCOP = NaN

\* the last record made, and the heat the same month gets, all else equal,
\* when its ambient temperature is T2
Last == monthly_data[Len(monthly_data)]
HeatAt(T2) == MonthTable[K, <<T2, Last.T_mout, Last.days>>].Qm
Demand(T) == Positive(FSub(FInt(20), T))
RelTol == FDec(1, 12)
ClearlyAbove(x, y) == FLt(FMul(y, FAdd(FInt(1), RelTol)), x)
Lower(T2) == FLt(T2, Last.T_menv) /\ Demand(T2) /\ Demand(Last.T_menv)

\* C8 as stated: for every accepted sizing and every day count, a lower
\* ambient temperature with a demand gives a strictly larger Qm_kWh.
C8_StrictlyMonotone ==
    (pc \in {"loop", "done"} /\ monthly_data # <<>>) =>
        \A T2 \in EnvTemps : Lower(T2) => FLt(Last.Qm_kWh, HeatAt(T2))

\* C8: for K > 0 and a positive day count, a lower ambient temperature with
\* a demand gives a Qm_kWh that is not smaller, and a strictly larger one
\* when its differential exceeds the other by more than RelTol of it.
C8_MonotoneForPositiveK ==
    (pc \in {"loop", "done"} /\ monthly_data # <<>> /\ Positive(K)
        /\ Positive(Last.days)) =>
        \A T2 \in EnvTemps :
            Lower(T2) =>
                /\ FLe(Last.Qm_kWh, HeatAt(T2))
                /\ ClearlyAbove(FSub(FInt(20), T2), FSub(FInt(20), Last.T_menv))
                     => FLt(Last.Qm_kWh, HeatAt(T2))

C8_Witness ==
    /\ pc = "done"
    /\ monthly_data # <<>>
    /\ Positive(K) /\ Positive(Last.days)
    /\ Last.T_menv = FZero
    /\ Lower(FInt(-3))
    /\ FLt(Last.Qm_kWh, HeatAt(FInt(-3)))

\* the call by area and q_H of a season after the call by unit count, both
\* with K > 0 and a SCOP that is a number
BothDefined ==
    /\ pc = "done" /\ det1 # None
    /\ Positive(K) /\ Positive(det1.K)
    /\ SCOP # NaN /\ det1.SCOP # NaN

\* C9 as stated: the two calls have equal cross products of their totals and
\* an equal SCOP, and different K.
C9_SameScop ==
    BothDefined =>
        /\ FMul(det1.Q_total_kWh, P_total) = FMul(Q_total, det1.P_total_kWh)
        /\ SCOP = det1.SCOP
        /\ K # det1.K

\* C9: when moreover every month's COP is positive, the two calls return
\* SCOP values that differ by at most RelTol of their value, and different K.
C9_ScopWithinTolerance ==
    (BothDefined /\ \A k \in 1..Len(monthly_data) : Positive(monthly_data[k].COP_m)) =>
        /\ FLe(FAbs(FSub(SCOP, det1.SCOP)), FMul(RelTol, det1.SCOP))
        /\ K # det1.K

\* what Python prints for the example: K = 186.13280811176475 and SCOP =
\* 3.4232754760275843 by unit count, K = 61.58088235294118 and SCOP =
\* 3.4232754760275848 by area
example_K_units == FDecLong(186132808, 11176475, 14)
example_K_area == FDecLong(61580882, 35294118, 14)
example_SCOP_units == FDecLong(342327547, 60275843, 16)
example_SCOP_area == FDecLong(342327547, 60275848, 16)

C9_Witness ==
    /\ BothDefined
    /\ env_temps_monthly = example_env_temps
    /\ days_in_month = example_days_in_month
    /\ det1.K = example_K_units /\ K = example_K_area
    /\ det1.SCOP = example_SCOP_units /\ SCOP = example_SCOP_area

\* C10: the returned K is n_units * P_hmax_design / 27.2 when a unit count is
\* given and area * q_H / 1000 / 27.2 otherwise, where 27.2 is 20 - (-7.2);
\* it is positive for a positive unit count at T_out_design = 45 and for a
\* positive area and q_H.
C10_SizingFormula ==
    pc = "done" =>
        /\ details.K = K
        /\ n_units # None =>
             /\ K = FDiv(FMul(n_units, P_hmax_design(T_out_design)),
                         FSub(FInt(20), FDec(-72, 1)))
             /\ (Positive(n_units) /\ T_out_design = FInt(45)) => Positive(K)
        /\ n_units = None =>
             /\ K = FDiv(FDiv(FMul(area, q_H), FInt(1000)),
                         FSub(FInt(20), FDec(-72, 1)))
             /\ (Positive(area) /\ Positive(q_H)) => Positive(K)

C10_Witness ==
    /\ pc = "done"
    /\ n_units = FInt(21) /\ T_out_design = FInt(45)
    /\ K = example_K_units
    /\ Positive(K)
====
